---- MODULE Spec2Model ----
(***************************************************************************)
(* A model of openclaw-context-compactor.                                  *)
(*                                                                         *)
(*   SpecCli     the interactive setup() of src/cli.js: the prompts, the   *)
(*               file-system operations on ~/.openclaw and the plugin      *)
(*               config it writes.                                         *)
(*   SpecEngine  the compaction engine (index.ts, which cli.js installs):  *)
(*               CompactionEngine.process, forceRecompact and the host     *)
(*               appending messages.                                       *)
(*   SpecSplit   BoundarySplitter.split applied to bounded contexts.       *)
(***************************************************************************)
EXTENDS Integers, Sequences, FiniteSets, TLC

VARIABLES
  \* ---- cli.js: control and locals of setup()
  pc,             \* position in setup()
  backupPath,     \* const backupPath (line 112): "null" or "backup"
  config,         \* let config (line 148): the parsed openclaw.json
  maxTokens,      \* let maxTokens (line 168)
  detectedInfo,   \* let detectedInfo (line 169)
  \* ---- cli.js: the file system under ~/.openclaw
  dirExists,      \* ~/.openclaw exists
  cfgFile,        \* content of openclaw.json, or Absent
  backups,        \* contents of the files in ~/.openclaw/backups
  pluginFiles,    \* plugin files copied to extensions/context-compactor
  oldExt,         \* extensions/openclaw-context-compactor exists
  \* ---- cli.js: history of the run (what happened, in which order)
  cfgAtStart,     \* content of openclaw.json when setup() started
  ops,            \* the prompts asked and the file operations done, in order
  permission,     \* answer to 'Check your config for model info?'
  replaced,       \* contents that a write to openclaw.json replaced
  \* ---- the compaction engine: a session
  context,        \* Context: the transcript the host holds, a sequence of Messages
  cfg,            \* CompactionConfig
  state,          \* CompactionState
  now,            \* the clock: the number of process calls made
  nextId,         \* the next tool-call identifier the host hands out
  \* ---- the compaction engine: history of the run
  lastCall        \* what the last process call was given, did and returned,
                  \* kept until the transcript changes again

cliVars == <<pc, backupPath, config, maxTokens, detectedInfo, dirExists, cfgFile,
             backups, pluginFiles, oldExt, cfgAtStart, ops, permission, replaced>>

engVars == <<context, cfg, state, now, nextId, lastCall>>

vars == <<cliVars, engVars>>

(***************************************************************************)
(* JavaScript values.  A Number is an integer or Infinity; JSON has no     *)
(* Infinity and JSON.stringify writes it as null.                          *)
(***************************************************************************)
Infinity == 0 - 1
Null == 0 - 2

\* plugins.entries['context-compactor'] of a config; present = FALSE when the
\* key is missing.
NoEntry ==
  [present |-> FALSE, enabled |-> FALSE, maxTokens |-> 0, keepRecentTokens |-> 0,
   summaryMaxTokens |-> 0, charsPerToken |-> 0]
\* The entry the previous version of the setup script wrote.
OldEntry ==
  [present |-> TRUE, enabled |-> TRUE, maxTokens |-> 8000, keepRecentTokens |-> 2000,
   summaryMaxTokens |-> 1000, charsPerToken |-> 4]

\* The content of openclaw.json: no file, text that is not JSON, JSON that is
\* not an object (null), or an object with agents.defaults.model.primary and
\* the plugin entry (its other keys play no part in setup()).
Absent == [kind |-> "absent", primary |-> "none", entry |-> NoEntry]
Garbage == [kind |-> "garbage", primary |-> "none", entry |-> NoEntry]
JsonNull == [kind |-> "null", primary |-> "none", entry |-> NoEntry]
EmptyObject == [kind |-> "object", primary |-> "none", entry |-> NoEntry]

\* Math.floor(x * 0.25) and Math.floor(x * 0.125): exact on integers held in a
\* double (a scaling by a power of two); Infinity stays Infinity.
FloorQuarter(x) == IF x = Infinity THEN Infinity ELSE x \div 4
FloorEighth(x) == IF x = Infinity THEN Infinity ELSE x \div 8
FloorEightyPercent(x) == (x * 8) \div 10
NumLess(a, b) == IF a = Infinity THEN FALSE ELSE IF b = Infinity THEN TRUE ELSE a < b
JsonNumber(x) == IF x = Infinity THEN Null ELSE x

(***************************************************************************)
(* Answers typed at a prompt: sequences of characters.                     *)
(***************************************************************************)
Digits == {"0", "1", "2", "3", "4", "5", "6", "7", "8", "9"}
DigitValue(c) ==
  CASE c = "0" -> 0 [] c = "1" -> 1 [] c = "2" -> 2 [] c = "3" -> 3 [] c = "4" -> 4
    [] c = "5" -> 5 [] c = "6" -> 6 [] c = "7" -> 7 [] c = "8" -> 8 [] c = "9" -> 9

\* The least number of significant decimal digits from which every integer
\* exceeds Number.MAX_VALUE (about 1.8 * 10^308): parseInt yields Infinity.
InfinityDigits == 310
\* The answers this model types are either short (their value is computed
\* exactly) or at least InfinityDigits long.
OverflowAnswer == [i \in 1..InfinityDigits |-> "9"]

Answers ==
  { <<"y">>, <<"Y">>, <<"Y", "e", "s">>, <<" ", "y", " ">>, <<"n">>, <<>>,
    <<"1", "6", "k">>,
    <<"0">>, <<"8", "0", "0", "0">>, <<"1", "5", "9", "9", "9">>,
    <<"1", "6", "0", "0", "0">>, <<"0", "2", "0", "0", "0", "3">>,
    <<"3", "2", "7", "6", "7">>,
    OverflowAnswer }

ToLowerChar(c) ==
  CASE c = "Y" -> "y" [] c = "E" -> "e" [] c = "S" -> "s" [] c = "N" -> "n"
    [] OTHER -> c
ToLowerCase(s) == [i \in 1..Len(s) |-> ToLowerChar(s[i])]

RECURSIVE TrimStart(_)
TrimStart(s) == IF s # <<>> /\ Head(s) = " " THEN TrimStart(Tail(s)) ELSE s
RECURSIVE TrimEnd(_)
TrimEnd(s) ==
  IF s # <<>> /\ s[Len(s)] = " " THEN TrimEnd(SubSeq(s, 1, Len(s) - 1)) ELSE s
\* prompt() resolves with answer.trim()
Trim(s) == TrimEnd(TrimStart(s))

\* proceed.toLowerCase() === 'y' || proceed.toLowerCase() === 'yes'
IsYes(s) == ToLowerCase(s) = <<"y">> \/ ToLowerCase(s) = <<"y", "e", "s">>
\* /^\d+$/.test(s)
IsDigits(s) == s # <<>> /\ \A i \in 1..Len(s) : s[i] \in Digits

RECURSIVE StripZeros(_)
StripZeros(s) == IF s # <<>> /\ Head(s) = "0" THEN StripZeros(Tail(s)) ELSE s
RECURSIVE DecimalValue(_)
DecimalValue(s) ==
  IF s = <<>> THEN 0
  ELSE 10 * DecimalValue(SubSeq(s, 1, Len(s) - 1)) + DigitValue(s[Len(s)])
\* parseInt(s, 10) of a digit string
ParseInt(s) ==
  IF Len(StripZeros(s)) >= InfinityDigits THEN Infinity ELSE DecimalValue(StripZeros(s))

(***************************************************************************)
(* detectModelContextWindow                                                *)
(***************************************************************************)
\* const knownContexts, in the order Object.entries walks it
KnownContexts ==
  << [pattern |-> "anthropic/claude-opus", tokens |-> 200000],
     [pattern |-> "anthropic/claude-sonnet", tokens |-> 200000],
     [pattern |-> "anthropic/claude-haiku", tokens |-> 200000],
     [pattern |-> "openai/gpt-4", tokens |-> 128000],
     [pattern |-> "openai/gpt-4-turbo", tokens |-> 128000],
     [pattern |-> "openai/gpt-3.5-turbo", tokens |-> 16000],
     [pattern |-> "mlx", tokens |-> 32000],
     [pattern |-> "ollama", tokens |-> 32000],
     [pattern |-> "llama", tokens |-> 32000],
     [pattern |-> "mistral", tokens |-> 32000],
     [pattern |-> "qwen", tokens |-> 32000] >>

\* The primary models of the configs this model starts from.
ModelNames ==
  {"anthropic/claude-opus-4", "openai/gpt-4-turbo", "openai/gpt-3.5-turbo",
   "MLX/Llama-3", "lmstudio/phi-3"}

\* model.toLowerCase().includes(pattern.toLowerCase()), for the models above
Includes(model, pattern) ==
  CASE model = "anthropic/claude-opus-4" -> pattern \in {"anthropic/claude-opus"}
    [] model = "openai/gpt-4-turbo" -> pattern \in {"openai/gpt-4", "openai/gpt-4-turbo"}
    [] model = "openai/gpt-3.5-turbo" -> pattern \in {"openai/gpt-3.5-turbo"}
    [] model = "MLX/Llama-3" -> pattern \in {"mlx", "llama"}
    [] OTHER -> FALSE

NoInfo == [kind |-> "null", model |-> "none", tokens |-> Null, source |-> "none"]

DetectModelContextWindow(parsed) ==
  LET model == IF parsed.kind = "object" THEN parsed.primary ELSE "none"
      hits == {i \in 1..Len(KnownContexts) : Includes(model, KnownContexts[i].pattern)}
  IN  IF model = "none" THEN NoInfo
      ELSE IF hits # {}
        THEN LET first == CHOOSE i \in hits : \A j \in hits : i <= j
             IN  [kind |-> "info", model |-> model,
                  tokens |-> KnownContexts[first].tokens, source |-> "detected"]
        ELSE [kind |-> "info", model |-> model, tokens |-> Null, source |-> "unknown"]

\* detectedInfo && detectedInfo.tokens
HasTokens(info) == info.kind = "info" /\ info.tokens # Null

(***************************************************************************)
(* setup() of cli.js                                                       *)
(***************************************************************************)
\* let maxTokens = 16000 (line 168) and const MIN_TOKENS = 16000 (line 220)
DefaultMaxTokens == 16000
MIN_TOKENS == 16000

\* A session of the engine that setup() never touches.
IdleState ==
  [forceRecompact |-> FALSE, lastCompactionTimestamp |-> 0,
   lastCompactionBoundaryIndex |-> 0, statsHistory |-> <<>>]
IdleConfig ==
  [maxTokens |-> 0, keepRecentTokens |-> 0, summaryMaxTokens |-> 0, charsPerToken |-> 1]
NoCall ==
  [path |-> "none", input |-> <<>>, output |-> <<>>, old |-> <<>>, recent |-> <<>>,
   total |-> 0, generated |-> 0, forced |-> FALSE, flagAfter |-> FALSE,
   summarizeCalled |-> FALSE, repeat |-> FALSE, afterCompaction |-> FALSE,
   statsBefore |-> 0]
EngineIdle ==
  /\ context = <<>> /\ cfg = IdleConfig /\ state = IdleState
  /\ now = 0 /\ nextId = 1 /\ lastCall = NoCall

StartContents ==
  {Absent, Garbage, JsonNull}
    \cup [kind : {"object"}, primary : ModelNames \cup {"none"}, entry : {NoEntry, OldEntry}]

InitCli ==
  /\ pc = "start"
  /\ backupPath = "null"
  /\ config = EmptyObject
  /\ maxTokens = 0
  /\ detectedInfo = NoInfo
  /\ dirExists \in BOOLEAN
  /\ cfgFile \in StartContents
  /\ oldExt \in BOOLEAN
  \* without ~/.openclaw there is nothing below it
  /\ (~dirExists => cfgFile = Absent /\ ~oldExt)
  /\ backups = {}
  /\ pluginFiles = FALSE
  /\ cfgAtStart = cfgFile
  /\ ops = <<>>
  /\ permission = "unasked"
  /\ replaced = {}
  /\ EngineIdle

\* lines 94-98: 'Continue? (y/n)'
PromptContinue ==
  /\ pc = "start"
  /\ \E a \in Answers :
       pc' = IF IsYes(Trim(a)) THEN "checkDir" ELSE "cancelled"
  /\ ops' = Append(ops, "prompt:continue")
  /\ UNCHANGED <<backupPath, config, maxTokens, detectedInfo, dirExists, cfgFile,
                 backups, pluginFiles, oldExt, cfgAtStart, permission, replaced>>
  /\ UNCHANGED engVars

\* lines 100-107: OpenClaw must be installed
CheckOpenclawDir ==
  /\ pc = "checkDir"
  /\ pc' = IF dirExists THEN "backup" ELSE "exit1"
  /\ UNCHANGED <<backupPath, config, maxTokens, detectedInfo, dirExists, cfgFile,
                 backups, pluginFiles, oldExt, cfgAtStart, ops, permission, replaced>>
  /\ UNCHANGED engVars

\* backupConfig without its copyFileSync: setup() goes on with no backup file.
BackupConfigNoCopy ==
  /\ pc = "backup"
  /\ backupPath' = IF cfgFile = Absent THEN "null" ELSE "backup"
  /\ pc' = "install"
  /\ UNCHANGED <<config, maxTokens, detectedInfo, dirExists, cfgFile, backups,
                 pluginFiles, oldExt, cfgAtStart, ops, permission, replaced>>
  /\ UNCHANGED engVars

\* lines 109-118 with backupConfig (39-48).  mkdirSync or copyFileSync may
\* throw: setup() rejects and the main switch exits with 1.
BackupConfig ==
  /\ pc = "backup"
  /\ IF cfgFile = Absent
       THEN /\ backupPath' = "null"
            /\ pc' = "install"
            /\ UNCHANGED <<backups, ops>>
       ELSE \E threw \in BOOLEAN :
              IF threw
                THEN /\ pc' = "exit1"
                     /\ UNCHANGED <<backupPath, backups, ops>>
                ELSE /\ backups' = backups \cup {cfgFile}
                     /\ backupPath' = "backup"
                     /\ ops' = Append(ops, "copy:config")
                     /\ pc' = "install"
  /\ UNCHANGED <<config, maxTokens, detectedInfo, dirExists, cfgFile,
                 pluginFiles, oldExt, cfgAtStart, permission, replaced>>
  /\ UNCHANGED engVars

\* lines 120-135: copy index.ts and openclaw.plugin.json
InstallPluginFiles ==
  /\ pc = "install"
  /\ \E threw \in BOOLEAN :
       IF threw
         THEN pc' = "exit1" /\ UNCHANGED <<pluginFiles, ops>>
         ELSE /\ pluginFiles' = TRUE
              /\ ops' = Append(ops, "copy:plugin")
              /\ pc' = "cleanup"
  /\ UNCHANGED <<backupPath, config, maxTokens, detectedInfo, dirExists, cfgFile,
                 backups, oldExt, cfgAtStart, permission, replaced>>
  /\ UNCHANGED engVars

\* lines 137-145: remove the old package's directory; a failure is caught
CleanupOldExtension ==
  /\ pc = "cleanup"
  /\ IF oldExt
       THEN \E threw \in BOOLEAN :
              IF threw
                THEN UNCHANGED <<oldExt, ops>>
                ELSE oldExt' = FALSE /\ ops' = Append(ops, "rm:oldExtension")
       ELSE UNCHANGED <<oldExt, ops>>
  /\ pc' = "load"
  /\ UNCHANGED <<backupPath, config, maxTokens, detectedInfo, dirExists, cfgFile,
                 backups, pluginFiles, cfgAtStart, permission, replaced>>
  /\ UNCHANGED engVars

\* lines 147-156: config = JSON.parse(fs.readFileSync(OPENCLAW_CONFIG))
LoadConfig ==
  /\ pc = "load"
  /\ IF cfgFile = Absent
       THEN /\ config' = EmptyObject
            /\ pc' = "askCheck"
            /\ UNCHANGED ops
       ELSE /\ ops' = Append(ops, "read:config")
            /\ IF cfgFile.kind = "garbage"
                 THEN pc' = "exit1" /\ UNCHANGED config
                 ELSE pc' = "askCheck" /\ config' = cfgFile
  /\ UNCHANGED <<backupPath, maxTokens, detectedInfo, dirExists, cfgFile,
                 backups, pluginFiles, oldExt, cfgAtStart, permission, replaced>>
  /\ UNCHANGED engVars

\* lines 166-174 and 190-195: 'Check your config for model info? (y/n)'
PromptCheckConfig ==
  /\ pc = "askCheck"
  /\ \E a \in Answers :
       LET yes == IsYes(Trim(a))
           info == IF yes THEN DetectModelContextWindow(config) ELSE NoInfo
       IN  /\ permission' = IF yes THEN "yes" ELSE "no"
           /\ detectedInfo' = info
           /\ pc' = IF HasTokens(info) THEN "askUse" ELSE "manual"
  /\ maxTokens' = DefaultMaxTokens
  /\ ops' = Append(ops, "prompt:checkConfig")
  /\ UNCHANGED <<backupPath, config, dirExists, cfgFile, backups, pluginFiles,
                 oldExt, cfgAtStart, replaced>>
  /\ UNCHANGED engVars

\* lines 175-189: 'Use <suggested> tokens? (y/n, or enter custom)'
PromptUseDetected ==
  /\ pc = "askUse"
  /\ \E a \in Answers :
       LET useDetected == Trim(a)
           suggested == FloorEightyPercent(detectedInfo.tokens)
       IN  maxTokens' = IF IsYes(useDetected) THEN suggested
                        ELSE IF IsDigits(useDetected) THEN ParseInt(useDetected)
                        ELSE maxTokens
  /\ ops' = Append(ops, "prompt:useDetected")
  /\ pc' = "manual"
  /\ UNCHANGED <<backupPath, config, detectedInfo, dirExists, cfgFile, backups,
                 pluginFiles, oldExt, cfgAtStart, permission, replaced>>
  /\ UNCHANGED engVars

\* line 198: maxTokens === 8000 && (!detectedInfo || !detectedInfo.tokens)
ManualEntryNeeded == maxTokens = 8000 /\ ~HasTokens(detectedInfo)

\* lines 197-217: 'Enter maxTokens (default 16000, minimum 16000)'
ManualEntry ==
  /\ pc = "manual"
  /\ IF ManualEntryNeeded
       THEN /\ \E a \in Answers :
                 LET customTokens == Trim(a)
                 IN  maxTokens' = IF IsDigits(customTokens) THEN ParseInt(customTokens)
                                  ELSE 16000
            /\ ops' = Append(ops, "prompt:manual")
       ELSE UNCHANGED <<maxTokens, ops>>
  /\ pc' = "enforce"
  /\ UNCHANGED <<backupPath, config, detectedInfo, dirExists, cfgFile, backups,
                 pluginFiles, oldExt, cfgAtStart, permission, replaced>>
  /\ UNCHANGED engVars

\* lines 219-231: if (maxTokens < MIN_TOKENS) maxTokens = MIN_TOKENS
EnforceMinimum ==
  /\ pc = "enforce"
  /\ maxTokens' = IF NumLess(maxTokens, MIN_TOKENS) THEN MIN_TOKENS ELSE maxTokens
  /\ pc' = "update"
  /\ UNCHANGED <<backupPath, config, detectedInfo, dirExists, cfgFile, backups,
                 pluginFiles, oldExt, cfgAtStart, ops, permission, replaced>>
  /\ UNCHANGED engVars

\* lines 233-258: the entry assigned to config.plugins.entries
PluginEntry(m) ==
  [present |-> TRUE, enabled |-> TRUE, maxTokens |-> m,
   keepRecentTokens |-> FloorQuarter(m), summaryMaxTokens |-> FloorEighth(m),
   charsPerToken |-> 4]

\* JSON.stringify of the entry (line 260)
Stringify(e) ==
  [e EXCEPT !.maxTokens = JsonNumber(e.maxTokens),
            !.keepRecentTokens = JsonNumber(e.keepRecentTokens),
            !.summaryMaxTokens = JsonNumber(e.summaryMaxTokens)]

\* lines 243-261: config.plugins of a parsed null throws a TypeError; so may
\* writeFileSync.  Otherwise openclaw.json is rewritten.
UpdateConfig ==
  /\ pc = "update"
  /\ IF config.kind # "object"
       THEN pc' = "exit1" /\ UNCHANGED <<config, cfgFile, ops, replaced>>
       ELSE \E threw \in BOOLEAN :
              LET c == [config EXCEPT !.entry = PluginEntry(maxTokens)]
              IN  /\ config' = c
                  /\ IF threw
                       THEN pc' = "exit1" /\ UNCHANGED <<cfgFile, ops, replaced>>
                       ELSE /\ cfgFile' = [c EXCEPT !.entry = Stringify(c.entry)]
                            /\ replaced' = replaced \cup {cfgFile}
                            /\ ops' = Append(ops, "write:config")
                            /\ pc' = "done"
  /\ UNCHANGED <<backupPath, maxTokens, detectedInfo, dirExists, backups,
                 pluginFiles, oldExt, cfgAtStart, permission>>
  /\ UNCHANGED engVars

NextCli ==
  \/ PromptContinue
  \/ CheckOpenclawDir
  \/ BackupConfig
  \/ InstallPluginFiles
  \/ CleanupOldExtension
  \/ LoadConfig
  \/ PromptCheckConfig
  \/ PromptUseDetected
  \/ ManualEntry
  \/ EnforceMinimum
  \/ UpdateConfig

SpecCli == InitCli /\ [][NextCli]_vars

(***************************************************************************)
(* Properties of setup()                                                   *)
(***************************************************************************)
\* the position of the first occurrence of op in ops (0: none)
FirstIndex(op) ==
  IF \E i \in 1..Len(ops) : ops[i] = op
    THEN CHOOSE i \in 1..Len(ops) : ops[i] = op /\ \A j \in 1..(i - 1) : ops[j] # op
    ELSE 0
Happened(op) == FirstIndex(op) > 0
ConfigReadOps == {"copy:config", "read:config"}
ChangeOps == {"copy:plugin", "rm:oldExtension", "write:config"}

\* C5: the contents of openclaw.json are neither copied nor parsed before the
\* user has answered yes to 'Check your config for model info?', and never
\* when the answer is no.
C5_ReadOnlyAfterPermission ==
  \A i \in 1..Len(ops) :
    ops[i] \in ConfigReadOps =>
      /\ permission = "yes"
      /\ FirstIndex("prompt:checkConfig") \in 1..(i - 1)

\* C6: when openclaw.json exists at the start, a backup holding its original
\* content exists before setup copies plugin files, removes the old extension
\* directory or writes openclaw.json; every content a write replaced is backed up.
C6_BackupBeforeChanges ==
  /\ (cfgAtStart # Absent /\ \E i \in 1..Len(ops) : ops[i] \in ChangeOps) =>
        /\ cfgAtStart \in backups
        /\ \A i \in 1..Len(ops) :
              ops[i] \in ChangeOps => FirstIndex("copy:config") \in 1..(i - 1)
  /\ \A c \in replaced : c = Absent \/ c \in backups

C6_Witness ==
  /\ pc = "done"
  /\ cfgAtStart # Absent
  /\ cfgFile # cfgAtStart
  /\ cfgAtStart \in backups
  /\ Happened("copy:plugin") /\ Happened("rm:oldExtension") /\ Happened("write:config")

\* C7: in every run where no context window was determined, setup reaches the
\* 'Enter maxTokens' prompt (before it enforces the minimum and writes).
C7_ManualPromptReached ==
  (pc \in {"enforce", "update", "done"} /\ ~HasTokens(detectedInfo)) =>
    Happened("prompt:manual")

\* C8: every plugin config that setup writes has maxTokens >= 16000,
\* keepRecentTokens = floor(maxTokens * 0.25), summaryMaxTokens =
\* floor(maxTokens * 0.125), charsPerToken = 4, keepRecentTokens < maxTokens and
\* keepRecentTokens + summaryMaxTokens < maxTokens.
C8_WrittenConfigValid ==
  Happened("write:config") =>
    LET e == cfgFile.entry
    IN  /\ e.present /\ e.enabled
        /\ e.maxTokens # Null /\ e.keepRecentTokens # Null /\ e.summaryMaxTokens # Null
        /\ e.maxTokens >= 16000
        /\ e.keepRecentTokens = e.maxTokens \div 4
        /\ e.summaryMaxTokens = e.maxTokens \div 8
        /\ e.charsPerToken = 4
        /\ e.keepRecentTokens < e.maxTokens
        /\ e.keepRecentTokens + e.summaryMaxTokens < e.maxTokens

(***************************************************************************)
(* The compaction engine                                                   *)
(***************************************************************************)
MaxLen == 3        \* messages in a context
MaxCalls == 2      \* process calls in a run
MaxToolCalls == 1  \* tool calls the host issues in a run
MaxSplitLen == 4   \* messages in a context handed to split alone
MaxSplitIds == 2   \* tool-call identifiers in such a context

\* the user and assistant messages the host appends, with their characters, and
\* the characters of the summaries the model generates (the second is longer
\* than summaryMaxTokens allows: the cap is advisory)
Texts == {<<"user", 8>>, <<"assistant", 40>>}
SummarySizes == {4, 12}

Configs ==
  { [maxTokens |-> 6, keepRecentTokens |-> 2, summaryMaxTokens |-> 1, charsPerToken |-> 4],
    [maxTokens |-> 8, keepRecentTokens |-> 4, summaryMaxTokens |-> 2, charsPerToken |-> 4] }

Message(role, chars, id) ==
  [role |-> role, chars |-> chars, id |-> id, summary |-> FALSE]
\* a tool-call record and the tool-result record linked to it by the identifier
ToolCall(id) == Message("tool-call", 3, id)
ToolResult(id) == Message("tool-result", 8, id)
\* SummaryMessage: role system, tagged as a compaction artifact
SummaryMessage(chars) ==
  [role |-> "system", chars |-> chars, id |-> 0, summary |-> TRUE]

\* TokenEstimator.estimate: ceil(characterCount / charsPerToken), 0 for empty text
Estimate(chars, charsPerToken) ==
  IF chars = 0 THEN 0 ELSE (chars + charsPerToken - 1) \div charsPerToken

\* TokenEstimator.estimateContext: the sum of the per-message estimates (the
\* per-message overhead is 0 by default)
RECURSIVE EstimateContext(_, _)
EstimateContext(messages, charsPerToken) ==
  IF messages = <<>> THEN 0
  ELSE Estimate(Head(messages).chars, charsPerToken)
         + EstimateContext(Tail(messages), charsPerToken)

\* BoundarySplitter: the backward scan.  b is the index of the first message of
\* "recent" so far and acc its estimate; the most recent message is kept whole
\* whatever its size.
RECURSIVE ScanBoundary(_, _, _, _, _)
ScanBoundary(messages, b, acc, keepRecentTokens, charsPerToken) ==
  IF b = 1 THEN 1
  ELSE LET t == Estimate(messages[b - 1].chars, charsPerToken)
       IN  IF b = Len(messages) + 1 \/ acc + t <= keepRecentTokens
             THEN ScanBoundary(messages, b - 1, acc + t, keepRecentTokens, charsPerToken)
             ELSE b

\* the index of the tool-call paired with the tool-result at r (0: none before r)
PairedCall(messages, r) ==
  LET calls == {j \in 1..(r - 1) : messages[j].role = "tool-call"
                                    /\ messages[j].id = messages[r].id}
  IN  IF calls = {} THEN 0 ELSE CHOOSE j \in calls : TRUE

\* BoundarySplitter: the pairing rule at the tentative boundary b.  A tool-result
\* right after the boundary pulls the boundary back to its tool-call; and vice
\* versa, a tool-call right before the boundary whose result is in "recent" is
\* taken into "recent".
ExtendForPair(messages, b) ==
  IF b \in 2..Len(messages) /\ messages[b].role = "tool-result"
       /\ PairedCall(messages, b) # 0
    THEN PairedCall(messages, b)
  ELSE IF b \in 2..Len(messages) /\ messages[b - 1].role = "tool-call"
            /\ \E r \in b..Len(messages) :
                 messages[r].role = "tool-result" /\ messages[r].id = messages[b - 1].id
    THEN b - 1
  ELSE b

\* BoundarySplitter.split(messages, keepRecentTokens) -> (old, recent)
Split(messages, keepRecentTokens, charsPerToken) ==
  LET tentative == ScanBoundary(messages, Len(messages) + 1, 0, keepRecentTokens,
                                charsPerToken)
      b == ExtendForPair(messages, tentative)
  IN  [old |-> SubSeq(messages, 1, b - 1),
       recent |-> SubSeq(messages, b, Len(messages)),
       boundary |-> b]

StatsEntry(t, before, after, summarized, failed) ==
  [timestamp |-> t, tokensBefore |-> before, tokensAfter |-> after,
   messagesSummarized |-> summarized, failed |-> failed]

\* Summarizer.summarize: generated is the size of the model's output; an error,
\* a timeout or empty content (0) is a SummarizationError
SummarizeFails(generated) == generated = 0

\* The fallback that drops what it failed to summarize.
FallbackContextRecentOnly(messages, sp) == sp.recent

\* Compaction step 3, on SummarizationError: pass through the unmodified
\* original context
FallbackContext(messages, sp) == messages

\* The decision rule without its step 1.
ShouldCompactThresholdOnly(total, c, st) == total > c.maxTokens

\* CompactionEngine decision rule, steps 1-2: compact when the force flag is set
\* or the estimate exceeds maxTokens
ShouldCompact(total, c, st) == st.forceRecompact \/ total > c.maxTokens

\* CompactionEngine.process(context, config, state) at time t, the generation
\* backend answering `generated` if it is asked: the path taken, the split, and
\* (newContext, newState)
ProcessResult(messages, c, st, t, generated) ==
  LET total == EstimateContext(messages, c.charsPerToken)
      sp == Split(messages, c.keepRecentTokens, c.charsPerToken)
      cleared == [st EXCEPT !.forceRecompact = FALSE]
      pass(p, s0, failed) ==
        [path |-> p, old |-> IF p = "passthrough" THEN <<>> ELSE sp.old,
         recent |-> IF p = "passthrough" THEN <<>> ELSE sp.recent,
         total |-> total,
         newContext |-> IF failed THEN FallbackContext(messages, sp) ELSE messages,
         newState |-> [s0 EXCEPT !.statsHistory =
                         Append(@, StatsEntry(t, total, total, 0, failed))]]
  IN  IF ~ShouldCompact(total, c, st) THEN pass("passthrough", st, FALSE)
      ELSE IF sp.old = <<>> THEN pass("emptyOld", cleared, FALSE)
      ELSE IF SummarizeFails(generated) THEN pass("failed", cleared, TRUE)
      ELSE LET newContext == <<SummaryMessage(generated)>> \o sp.recent
           IN  [path |-> "compacted", old |-> sp.old, recent |-> sp.recent,
                total |-> total, newContext |-> newContext,
                newState |->
                  [forceRecompact |-> FALSE,
                   lastCompactionTimestamp |-> t,
                   lastCompactionBoundaryIndex |-> sp.boundary,
                   statsHistory |->
                     Append(st.statsHistory,
                            StatsEntry(t, total,
                                       EstimateContext(newContext, c.charsPerToken),
                                       Len(sp.old), FALSE))]]

\* setup() at rest while a session runs
CliIdle ==
  /\ pc = "idle" /\ backupPath = "null" /\ config = EmptyObject /\ maxTokens = 0
  /\ detectedInfo = NoInfo /\ dirExists = TRUE /\ cfgFile = Absent /\ backups = {}
  /\ pluginFiles = TRUE /\ oldExt = FALSE /\ cfgAtStart = Absent /\ ops = <<>>
  /\ permission = "unasked" /\ replaced = {}

\* a session starts: an empty transcript, a validated config, a fresh state
InitEngine ==
  /\ CliIdle
  /\ context = <<>>
  /\ cfg \in Configs
  /\ state = IdleState
  /\ now = 0
  /\ nextId = 1
  /\ lastCall = NoCall

\* the host appends a user or assistant message to the transcript
AppendMessage ==
  /\ Len(context) < MaxLen
  /\ \E t \in Texts : context' = Append(context, Message(t[1], t[2], 0))
  /\ lastCall' = NoCall
  /\ UNCHANGED <<cfg, state, now, nextId>>
  /\ UNCHANGED cliVars

\* the agent issues a tool call
AppendToolCall ==
  /\ Len(context) < MaxLen
  /\ nextId <= MaxToolCalls
  /\ context' = Append(context, ToolCall(nextId))
  /\ nextId' = nextId + 1
  /\ lastCall' = NoCall
  /\ UNCHANGED <<cfg, state, now>>
  /\ UNCHANGED cliVars

\* the result of a tool call of the transcript that has none yet arrives
AppendToolResult ==
  /\ Len(context) < MaxLen
  /\ \E c \in 1..Len(context) :
       /\ context[c].role = "tool-call"
       /\ \A r \in 1..Len(context) :
            ~(context[r].role = "tool-result" /\ context[r].id = context[c].id)
       /\ context' = Append(context, ToolResult(context[c].id))
  /\ lastCall' = NoCall
  /\ UNCHANGED <<cfg, state, now, nextId>>
  /\ UNCHANGED cliVars

\* CommandHandlers.forceRecompact()
ForceRecompact ==
  /\ state' = [state EXCEPT !.forceRecompact = TRUE]
  /\ UNCHANGED <<context, cfg, now, nextId, lastCall>>
  /\ UNCHANGED cliVars

\* the host's beforeTurn hook: process the transcript and take what it returns
Process ==
  /\ now < MaxCalls
  /\ \E generated \in {0} \cup SummarySizes :
       LET r == ProcessResult(context, cfg, state, now + 1, generated)
       IN  /\ context' = r.newContext
           /\ state' = r.newState
           /\ lastCall' =
                 [path |-> r.path, input |-> context, output |-> r.newContext,
                  old |-> r.old, recent |-> r.recent, total |-> r.total,
                  generated |-> generated,
                  forced |-> state.forceRecompact,
                  flagAfter |-> r.newState.forceRecompact,
                  summarizeCalled |-> r.path \in {"failed", "compacted"},
                  repeat |-> lastCall.path # "none" /\ ~state.forceRecompact,
                  afterCompaction |-> lastCall.path = "compacted",
                  statsBefore |-> Len(state.statsHistory)]
  /\ now' = now + 1
  /\ UNCHANGED <<cfg, nextId>>
  /\ UNCHANGED cliVars

NextEngine ==
  \/ AppendMessage
  \/ AppendToolCall
  \/ AppendToolResult
  \/ ForceRecompact
  \/ Process

SpecEngine == InitEngine /\ [][NextEngine]_vars

(***************************************************************************)
(* BoundarySplitter.split on its own                                       *)
(***************************************************************************)
SplitMessages ==
  {Message(t[1], t[2], 0) : t \in Texts}
    \cup {ToolCall(i) : i \in 1..MaxSplitIds}
    \cup {ToolResult(i) : i \in 1..MaxSplitIds}

\* a tool-call and the tool-result that carries its identifier
Paired(a, b) ==
  /\ a.id = b.id
  /\ \/ a.role = "tool-call" /\ b.role = "tool-result"
     \/ a.role = "tool-result" /\ b.role = "tool-call"

\* A transcript the host can hold: chronological, every tool-call identifier
\* issued once and in order, every tool-result after its tool-call and only one
\* per call, and nothing but tool messages between a call and its result (the
\* calls of one turn, then their results).
WellFormed(messages) ==
  /\ \A c, r \in 1..Len(messages) :
       (c < r /\ Paired(messages[c], messages[r])) =>
         \A k \in c..r : messages[k].role \in {"tool-call", "tool-result"}
  /\ \A i, j \in 1..Len(messages) :
       (i < j /\ messages[i].role = "tool-call" /\ messages[j].role = "tool-call")
         => messages[i].id < messages[j].id
  /\ \A i, j \in 1..Len(messages) :
       (i < j /\ messages[i].role = "tool-result" /\ messages[j].role = "tool-result")
         => messages[i].id # messages[j].id
  /\ \A r \in 1..Len(messages) :
       messages[r].role = "tool-result" => PairedCall(messages, r) # 0

SplitInputs ==
  {m \in UNION {[1..n -> SplitMessages] : n \in 0..MaxSplitLen} : WellFormed(m)}

InitSplit ==
  /\ CliIdle
  /\ context \in SplitInputs
  /\ cfg \in Configs
  /\ state = IdleState
  /\ now = 0
  /\ nextId = 1
  /\ lastCall = NoCall

\* split(context, keepRecentTokens)
ApplySplit ==
  /\ lastCall.path = "none"
  /\ LET sp == Split(context, cfg.keepRecentTokens, cfg.charsPerToken)
     IN  lastCall' = [NoCall EXCEPT !.path = "split", !.input = context,
                                    !.old = sp.old, !.recent = sp.recent]
  /\ UNCHANGED <<context, cfg, state, now, nextId>>
  /\ UNCHANGED cliVars

SpecSplit == InitSplit /\ [][ApplySplit]_vars

(***************************************************************************)
(* Properties of the engine                                                *)
(***************************************************************************)
LastStats == state.statsHistory[Len(state.statsHistory)]

\* C1: when Summarizer.summarize fails, process returns the original context
\* (same messages, same order, nothing dropped or replaced by a summary) and
\* statsHistory gains an entry, which records the failure when summarization
\* was attempted.
C1_FallbackSafety ==
  (lastCall.path \notin {"none", "split"} /\ SummarizeFails(lastCall.generated)) =>
    /\ lastCall.output = lastCall.input
    /\ context = lastCall.input
    /\ Len(state.statsHistory) = lastCall.statsBefore + 1
    /\ LastStats.tokensBefore = lastCall.total
    /\ LastStats.tokensAfter = lastCall.total
    /\ LastStats.messagesSummarized = 0
    /\ (lastCall.summarizeCalled => LastStats.failed)
    /\ (lastCall.forced \/ lastCall.total > cfg.maxTokens) /\ lastCall.old # <<>>
         => lastCall.summarizeCalled

C1_Witness ==
  /\ lastCall.path = "failed"
  /\ Len(lastCall.input) = MaxLen
  /\ lastCall.old # <<>>
  /\ context = lastCall.input
  /\ LastStats.failed

\* C2: process called on the context a previous process call returned, with no
\* message appended in between and forceRecompact not set, makes no
\* summarization call and returns the context unchanged (stated here for a
\* previous call that compacted).
C2_Idempotence ==
  (lastCall.repeat /\ lastCall.afterCompaction) =>
    /\ ~lastCall.summarizeCalled
    /\ lastCall.output = lastCall.input

\* C3: after forceRecompact() the next process call executes compaction even
\* when the estimate is at or below maxTokens (it splits, and summarizes a
\* non-empty "old"); state.forceRecompact is false when process returns; and a
\* process call without the flag is decided by the token threshold alone.
C3_ForceRecompact ==
  lastCall.path \notin {"none", "split"} =>
    /\ lastCall.forced => lastCall.path \in {"emptyOld", "failed", "compacted"}
    /\ (lastCall.forced /\ lastCall.old # <<>>) => lastCall.summarizeCalled
    /\ (lastCall.forced /\ lastCall.old # <<>> /\ ~SummarizeFails(lastCall.generated)) =>
          /\ lastCall.path = "compacted"
          /\ lastCall.output = <<SummaryMessage(lastCall.generated)>> \o lastCall.recent
    /\ ~lastCall.flagAfter
    /\ ~lastCall.forced =>
          (lastCall.path = "passthrough" <=> lastCall.total <= cfg.maxTokens)

C3_Witness ==
  /\ lastCall.forced
  /\ lastCall.total <= cfg.maxTokens
  /\ lastCall.path = "compacted"
  /\ ~state.forceRecompact
  /\ Len(context) < Len(lastCall.input)

\* C4: split returns (old, recent) such that old followed by recent is the
\* input and no tool-call is in one partition while its paired tool-result is
\* in the other.
C4_PairingInvariant ==
  lastCall.path = "split" =>
    /\ lastCall.old \o lastCall.recent = lastCall.input
    /\ \A i \in 1..Len(lastCall.old), j \in 1..Len(lastCall.recent) :
         ~Paired(lastCall.old[i], lastCall.recent[j])

====
